---- MODULE Spec2Model ----
(***************************************************************************)
(* Model of Dijkstra.h (index-tracked binary min-heap + open-addressing    *)
(* hash table + shortest-path engine) driven by the demonstration          *)
(* callback writeIn_neighbor / send_neighbors.                             *)
(*                                                                         *)
(* Pointers to MinHeapNode are modelled as slot numbers of                 *)
(* hashintree->nodes; the null pointer is NULL.  A data pointer is         *)
(* modelled by the integer key it points to.                               *)
(***************************************************************************)
EXTENDS Integers, Sequences, FiniteSets, TLC

\* ---------------------------------------------------------------- bounds
\* Number of distinct node keys the callback may name (keys 0..NumKeys-1).
NumKeys == 4
\* Total number of edges the callback reveals during one run.
MaxEdges == 4
\* Table in isolation: largest declared node count (the table has
\* 2 * count + 1 slots) and largest key claimed or looked up.
MaxTableTotal == 2
MaxTableKey == 5
\* Heap in isolation: capacity of the heap.
MaxHeapSize == 5
\* Linked list: most elements the list holds at a time.
MaxListSize == 4

NULL == -1
Keys == 0 .. (NumKeys - 1)
\* Edge weights offered by the callback: a free edge or a unit-cost edge
\* (non-negative, as the algorithm requires).
Weights == {0, 1}
\* The demonstration programs start from key 0 with weight 0.
sourceData == 0
sourceWeight == 0

VARIABLES
    pc,                     \* position of the run inside Dijkstra_1source_to_all_else
    total_number_of_nodes,  \* the caller's declared node count
    nodes,                  \* hashintree->nodes : slot -> MinHeapNode
    heap,                   \* minheap->heap     : index -> slot or NULL
    size,                   \* minheap->size
    min_node,               \* the record handed to send_neighbors, or NULL
    graph,                  \* edges <<from, to, weight>> the callback has produced so far
    visited,                \* keys for which a seat has been requested
    zero_filled,            \* every uninitialised heapIndex read so far held 0
    plucked,                \* history: <<slot, weight at extraction>> in extraction order
    called,                 \* history: slots send_neighbors was invoked with, in order
    freed,                  \* history: slots whose payload went to free_data_and_weight, in order
    main_node,              \* main's `node`: the pointer its last table lookup returned
    someList,               \* the LinkedList struct: header pointer and size
    listmem,                \* the allocated list Nodes: address -> [data, next, prev]
    reference,              \* the sequence the list is expected to hold
    returned                \* <<value the last list operation returned, value expected>>

\* The variables of the linked-list utility.
list_vars == <<someList, listmem, reference, returned>>

vars == <<pc, total_number_of_nodes, nodes, heap, size, min_node, graph, visited, zero_filled,
          plucked, called, freed, main_node, list_vars>>

\* No list has been created.
NoList ==
    /\ someList = [header |-> NULL, size |-> 0]
    /\ listmem = <<>>
    /\ reference = <<>>
    /\ returned = <<>>

\* minheap->capacity and hashintree->size are fixed at creation.
capacity == total_number_of_nodes
tableSize == 2 * total_number_of_nodes + 1

\* ------------------------------------------------------- user callbacks
hashfunc(tSize, data) == data % tSize
isEqual(data1, data2) == data1 = data2
isBetterThan(weight1, weight2) == weight1 < weight2

\* ------------------------------------------------------------ HashInTree
\* A slot as HashInTree_create leaves it: data is NULL, the other fields are
\* not initialised (their content is resolved when the slot is first written).
EmptyNode == [data |-> NULL, weight |-> NULL, parent |-> NULL, heapIndex |-> NULL]

\* hashintree->size of a table value.
Len0(t) == Cardinality(DOMAIN t)

HashInTree_create(tSize) == [i \in 0 .. (tSize - 1) |-> EmptyNode]

RECURSIVE FindSeatLoop(_, _, _, _)
FindSeatLoop(t, data, hash, index) ==
    IF t[index].data = NULL \/ isEqual(data, t[index].data)
    THEN index
    ELSE LET next == (index + 1) % Len0(t)
         IN  IF next # hash THEN FindSeatLoop(t, data, hash, next) ELSE NULL

\* Variant of HashInTree_find_seat that looks for an empty slot only and does
\* not compare occupants with the key.
RECURSIVE FindEmptyLoop(_, _, _)
FindEmptyLoop(t, hash, index) ==
    IF t[index].data = NULL
    THEN index
    ELSE LET next == (index + 1) % Len0(t)
         IN  IF next # hash THEN FindEmptyLoop(t, hash, next) ELSE NULL

HashInTree_find_seat_first_empty(t, data) ==
    FindEmptyLoop(t, hashfunc(Len0(t), data), hashfunc(Len0(t), data))

\* Variant of HashInTree_find_seat whose probe stops at the last slot of the
\* array instead of wrapping to slot 0.
RECURSIVE FindSeatLoopNoWrap(_, _, _)
FindSeatLoopNoWrap(t, data, index) ==
    IF t[index].data = NULL \/ isEqual(data, t[index].data)
    THEN index
    ELSE IF index + 1 < Len0(t) THEN FindSeatLoopNoWrap(t, data, index + 1) ELSE NULL

HashInTree_find_seat_no_wrap(t, data) ==
    FindSeatLoopNoWrap(t, data, hashfunc(Len0(t), data))

\* Variant of HashInTree_find_seat that hands out the home slot instead of NULL
\* when the probe wraps.
HashInTree_find_seat_never_null(t, data) ==
    LET hash == hashfunc(Len0(t), data)
        seat == FindSeatLoop(t, data, hash, hash)
    IN  IF seat = NULL THEN hash ELSE seat

HashInTree_find_seat(t, data) ==
    LET hash == hashfunc(Len0(t), data)
    IN  FindSeatLoop(t, data, hash, hash)

\* The do-while loop of HashInTree_get_node_by_data.
RECURSIVE GetNodeLoop(_, _, _, _)
GetNodeLoop(t, data, hash, index) ==
    IF t[index].data = NULL
    THEN NULL
    ELSE IF isEqual(data, t[index].data)
         THEN index
         ELSE LET next == IF index = Len0(t) - 1 THEN 0 ELSE index + 1
              IN  IF next # hash THEN GetNodeLoop(t, data, hash, next) ELSE NULL

\* Variant of HashInTree_get_node_by_data that gives up at the last slot of
\* the array instead of wrapping to slot 0.
RECURSIVE GetNodeLoopNoWrap(_, _, _)
GetNodeLoopNoWrap(t, data, index) ==
    IF t[index].data = NULL
    THEN NULL
    ELSE IF isEqual(data, t[index].data)
         THEN index
         ELSE IF index + 1 < Len0(t) THEN GetNodeLoopNoWrap(t, data, index + 1) ELSE NULL

HashInTree_get_node_by_data_no_wrap(t, data) ==
    GetNodeLoopNoWrap(t, data, hashfunc(Len0(t), data))

HashInTree_get_node_by_data(t, data) ==
    LET hash == hashfunc(Len0(t), data)
    IN  GetNodeLoop(t, data, hash, hash)

\* The for loop of HashInTree_free from slot i on: the slots handed to
\* free_data_and_weight, in call order.
RECURSIVE FreeLoop(_, _)
FreeLoop(t, i) ==
    IF i < Len0(t)
    THEN IF t[i].data = NULL
         THEN FreeLoop(t, i + 1)
         ELSE <<i>> \o FreeLoop(t, i + 1)
    ELSE <<>>

\* Variant of HashInTree_free without the data == NULL test.
HashInTree_free_every_slot(t) == [i \in 1 .. Len0(t) |-> i - 1]

\* HashInTree_free: the free_data_and_weight calls it makes before it
\* releases the slot array and the table.
HashInTree_free(t) == FreeLoop(t, 0)

\* --------------------------------------------------------------- MinHeap
MinHeap_create(cap) == [i \in 0 .. (cap - 1) |-> NULL]

parent_index(i) == (i - 1) \div 2
left_child_index(i) == (2 * i) + 1
right_child_index(i) == 2 * (i + 1)

\* Result of a heap routine: the heap array, the records and the heap size
\* afterwards; status is "ok", "exit2" (exit(2) was called) or "segv" (a null
\* or out-of-bounds pointer was dereferenced; the process is gone and the
\* stores made by the routine before the fault are not kept); ret is the
\* returned pointer.
HeapResult(h, t, sz, status, ret) ==
    [heap |-> h, nodes |-> t, size |-> sz, status |-> status, ret |-> ret]

\* The while loop of MinHeap_bubble_up and the two stores after it.
RECURSIVE BubbleUpLoop(_, _, _, _, _)
BubbleUpLoop(h, t, sz, this_node, curr_index) ==
    LET parent_ind == parent_index(curr_index)
        done == HeapResult([h EXCEPT ![curr_index] = this_node],
                           [t EXCEPT ![this_node].heapIndex = curr_index],
                           sz, "ok", NULL)
    IN  IF curr_index > 0
        THEN IF h[parent_ind] = NULL
             THEN HeapResult(h, t, sz, "segv", NULL)
             ELSE IF isBetterThan(t[this_node].weight, t[h[parent_ind]].weight)
                  THEN BubbleUpLoop([h EXCEPT ![curr_index] = h[parent_ind]],
                                    [t EXCEPT ![h[parent_ind]].heapIndex = curr_index],
                                    sz, this_node, parent_ind)
                  ELSE done
        ELSE done

\* Variant of MinHeap_bubble_up that swaps with the parent at most once.
MinHeap_bubble_up_one_level(h, t, sz, curr_index) ==
    IF curr_index \notin DOMAIN h
    THEN HeapResult(h, t, sz, "segv", NULL)
    ELSE IF h[curr_index] = NULL
    THEN HeapResult(h, t, sz, "segv", NULL)
    ELSE LET this_node == h[curr_index]
             parent_ind == parent_index(curr_index)
         IN  IF curr_index > 0 /\ h[parent_ind] # NULL
                /\ isBetterThan(t[this_node].weight, t[h[parent_ind]].weight)
             THEN HeapResult([h EXCEPT ![curr_index] = h[parent_ind], ![parent_ind] = this_node],
                             [t EXCEPT ![h[parent_ind]].heapIndex = curr_index,
                                       ![this_node].heapIndex = parent_ind],
                             sz, "ok", NULL)
             ELSE HeapResult(h, t, sz, "ok", NULL)

\* MinHeap_bubble_up: this_node is whatever the array holds at curr_index.
\* An index outside the array, or a NULL entry, makes the routine dereference
\* an invalid pointer.
MinHeap_bubble_up(h, t, sz, curr_index) ==
    IF curr_index \notin DOMAIN h
    THEN HeapResult(h, t, sz, "segv", NULL)
    ELSE IF h[curr_index] = NULL
         THEN HeapResult(h, t, sz, "segv", NULL)
         ELSE BubbleUpLoop(h, t, sz, h[curr_index], curr_index)

\* Variant of the sift-down loop in which the right child also wins a tie
\* against the left one.
RECURSIVE BubbleDownLoopRightWinsTies(_, _, _, _, _, _)
BubbleDownLoopRightWinsTies(h, t, sz, curr_node, curr_index, minnode) ==
    LET left_child_ind == left_child_index(curr_index)
        right_child_ind == right_child_index(curr_index)
        smaller_child_ind ==
            IF right_child_ind < sz
               /\ ~isBetterThan(t[h[left_child_ind]].weight, t[h[right_child_ind]].weight)
            THEN right_child_ind
            ELSE left_child_ind
        done == HeapResult([h EXCEPT ![curr_index] = curr_node],
                           [t EXCEPT ![curr_node].heapIndex = curr_index],
                           sz, "ok", minnode)
    IN  IF left_child_ind < sz
        THEN IF isBetterThan(t[h[smaller_child_ind]].weight, t[curr_node].weight)
             THEN BubbleDownLoopRightWinsTies([h EXCEPT ![curr_index] = h[smaller_child_ind]],
                                 [t EXCEPT ![h[smaller_child_ind]].heapIndex = curr_index],
                                 sz, curr_node, smaller_child_ind, minnode)
             ELSE done
        ELSE done

\* The sift-down loop of MinHeap_pluck_min and the two stores after it.
RECURSIVE BubbleDownLoop(_, _, _, _, _, _)
BubbleDownLoop(h, t, sz, curr_node, curr_index, minnode) ==
    LET left_child_ind == left_child_index(curr_index)
        right_child_ind == right_child_index(curr_index)
        smaller_child_ind ==
            IF right_child_ind < sz
               /\ isBetterThan(t[h[right_child_ind]].weight, t[h[left_child_ind]].weight)
            THEN right_child_ind
            ELSE left_child_ind
        done == HeapResult([h EXCEPT ![curr_index] = curr_node],
                           [t EXCEPT ![curr_node].heapIndex = curr_index],
                           sz, "ok", minnode)
    IN  IF left_child_ind < sz
        THEN IF isBetterThan(t[h[smaller_child_ind]].weight, t[curr_node].weight)
             THEN BubbleDownLoop([h EXCEPT ![curr_index] = h[smaller_child_ind]],
                                 [t EXCEPT ![h[smaller_child_ind]].heapIndex = curr_index],
                                 sz, curr_node, smaller_child_ind, minnode)
             ELSE done
        ELSE done

\* Variant of MinHeap_pluck_min that does not clear the vacated last entry.
MinHeap_pluck_min_keeps_last(h, t, sz) ==
    IF sz = 0
    THEN HeapResult(h, t, sz, "ok", NULL)
    ELSE LET minnode == h[0]
             curr_node == h[sz - 1]
         IN  IF sz - 1 = 0
             THEN HeapResult(h, t, 0, "ok", minnode)
             ELSE BubbleDownLoop(h, t, sz - 1, curr_node, 0, minnode)

\* Variant of MinHeap_pluck_min that reports an empty heap when it removes the
\* only entry.
MinHeap_pluck_min_loses_last(h, t, sz) ==
    IF sz = 0
    THEN HeapResult(h, t, sz, "ok", NULL)
    ELSE LET minnode == h[0]
             curr_node == h[sz - 1]
             h1 == [h EXCEPT ![sz - 1] = NULL]
         IN  IF sz - 1 = 0
             THEN HeapResult(h1, t, 0, "ok", NULL)
             ELSE BubbleDownLoop(h1, t, sz - 1, curr_node, 0, minnode)

\* Variant of MinHeap_pluck_min that drops the last entry but never stores it
\* at the root.
MinHeap_pluck_min_keeps_root(h, t, sz) ==
    IF sz = 0
    THEN HeapResult(h, t, sz, "ok", NULL)
    ELSE HeapResult([h EXCEPT ![sz - 1] = NULL], t, sz - 1, "ok", h[0])

MinHeap_pluck_min(h, t, sz) ==
    IF sz = 0
    THEN HeapResult(h, t, sz, "ok", NULL)
    ELSE LET minnode == h[0]
             curr_node == h[sz - 1]
             h1 == [h EXCEPT ![sz - 1] = NULL]
         IN  IF sz - 1 = 0
             THEN HeapResult(h1, t, 0, "ok", minnode)
             ELSE BubbleDownLoop(h1, t, sz - 1, curr_node, 0, minnode)

\* Variant of MinHeap_update_key without the size == capacity test.
MinHeap_update_key_unchecked(h, t, sz, node, NodeIsNew) ==
    LET h1 == IF NodeIsNew /\ sz \in DOMAIN h THEN [h EXCEPT ![sz] = node] ELSE h
        sz1 == IF NodeIsNew THEN sz + 1 ELSE sz
    IN  MinHeap_bubble_up(h1, t, sz1, t[node].heapIndex)

MinHeap_update_key(h, t, sz, node, NodeIsNew) ==
    IF NodeIsNew /\ sz = Len0(h)
    THEN HeapResult(h, t, sz, "exit2", NULL)
    ELSE LET h1 == IF NodeIsNew THEN [h EXCEPT ![sz] = node] ELSE h
             sz1 == IF NodeIsNew THEN sz + 1 ELSE sz
         IN  MinHeap_bubble_up(h1, t, sz1, t[node].heapIndex)

\* ---------------------------------------------------------------- engine
\* HashInTree_create obtains the slots from malloc and sets only data, and
\* nothing writes heapIndex before MinHeap_update_key reads it.  What the
\* field of a freshly claimed slot may hold: any array index, or a value past
\* the end of the array (capacity stands for all of those).  The value is
\* drawn when the slot is claimed, the first time it can be observed.
UninitHeapIndex == 0 .. capacity

ProgramCounters == {"created", "loop", "callback", "done", "freed", "exit2", "segv",
                    "table", "heap", "list"}

\* State after MinHeap_create and HashInTree_create (Dijkstra.h 331-332).
Init ==
    /\ pc = "created"
    /\ total_number_of_nodes \in 1 .. NumKeys
    /\ nodes = HashInTree_create(2 * total_number_of_nodes + 1)
    /\ heap = MinHeap_create(total_number_of_nodes)
    /\ size = 0
    /\ min_node = NULL
    /\ graph = {}
    /\ visited = {}
    /\ zero_filled = TRUE
    /\ plucked = <<>>
    /\ called = <<>>
    /\ freed = <<>>
    /\ main_node = NULL
    /\ NoList

\* Store the outcome of a heap routine and move to `next` unless the routine
\* ended the process.
Continue(r, next) ==
    /\ heap' = r.heap
    /\ nodes' = r.nodes
    /\ size' = r.size
    /\ pc' = IF r.status = "ok" THEN next ELSE r.status

\* Dijkstra.h 334-338: seat the source and insert it into the heap.
InsertSource ==
    /\ pc = "created"
    /\ LET sourcenode == HashInTree_find_seat(nodes, sourceData)
       IN  \E g \in UninitHeapIndex :
             LET t1 == [nodes EXCEPT ![sourcenode] =
                           [data |-> sourceData, weight |-> sourceWeight,
                            parent |-> NULL, heapIndex |-> g]]
             IN  /\ Continue(MinHeap_update_key(heap, t1, size, sourcenode, TRUE), "loop")
                 /\ zero_filled' = (zero_filled /\ g = 0)
    /\ visited' = visited \cup {sourceData}
    /\ UNCHANGED <<total_number_of_nodes, min_node, graph, plucked, called, freed, main_node, list_vars>>

\* Dijkstra.h 341-342: MinHeap_pluck_min returned a record; send_neighbors is
\* entered with it.
PluckMin ==
    /\ pc = "loop"
    /\ LET r == MinHeap_pluck_min(heap, nodes, size)
       IN  /\ r.ret # NULL
           /\ Continue(r, "callback")
           /\ min_node' = r.ret
           /\ plucked' = Append(plucked, <<r.ret, nodes[r.ret].weight>>)
           /\ called' = Append(called, r.ret)
    /\ UNCHANGED <<total_number_of_nodes, graph, visited, zero_filled, freed, main_node, list_vars>>

\* Dijkstra.h 341, 343-344: MinHeap_pluck_min returned NULL; the heap is freed
\* and the table returned.
Finish ==
    /\ pc = "loop"
    /\ LET r == MinHeap_pluck_min(heap, nodes, size)
       IN  /\ r.ret = NULL
           /\ Continue(r, "done")
           /\ min_node' = r.ret
    /\ UNCHANGED <<total_number_of_nodes, graph, visited, zero_filled, plucked, called,
                   freed, main_node, list_vars>>

\* Variant of writeIn_neighbor that, instead of exiting when the table is
\* full, takes the key's home slot and treats every slot that does not hold
\* the key as free.
writeIn_neighbor_evicts(data, weight) ==
    /\ pc = "callback"
    /\ Cardinality(graph) < MaxEdges
    /\ \A e \in graph : ~(e[1] = nodes[min_node].data /\ e[2] = data)
    /\ data # sourceData
    /\ data # nodes[min_node].data
    /\ graph' = graph \cup {<<nodes[min_node].data, data, weight>>}
    /\ visited' = visited \cup {data}
    /\ LET canvas == HashInTree_find_seat_never_null(nodes, data)
           new_neighbor_weight == nodes[min_node].weight + weight
       IN  IF nodes[canvas].data # data
           THEN \E g \in UninitHeapIndex :
                  LET t1 == [nodes EXCEPT ![canvas] =
                                [data |-> data, weight |-> new_neighbor_weight,
                                 parent |-> min_node, heapIndex |-> g]]
                  IN  /\ Continue(MinHeap_update_key(heap, t1, size, canvas, TRUE), "callback")
                      /\ zero_filled' = (zero_filled /\ g = 0)
           ELSE IF isBetterThan(new_neighbor_weight, nodes[canvas].weight)
           THEN LET t1 == [nodes EXCEPT ![canvas].weight = new_neighbor_weight,
                                        ![canvas].parent = min_node]
                IN  /\ Continue(MinHeap_update_key(heap, t1, size, canvas, FALSE), "callback")
                    /\ UNCHANGED zero_filled
           ELSE UNCHANGED <<pc, nodes, heap, size, zero_filled>>
    /\ UNCHANGED <<total_number_of_nodes, min_node, plucked, called, freed, main_node, list_vars>>

\* Variant of writeIn_neighbor that also rewrites a seated record when the
\* candidate weight merely ties with the recorded one.
writeIn_neighbor_relaxes_ties(data, weight) ==
    /\ pc = "callback"
    /\ Cardinality(graph) < MaxEdges
    /\ \A e \in graph : ~(e[1] = nodes[min_node].data /\ e[2] = data)
    /\ data # sourceData
    /\ data # nodes[min_node].data
    /\ graph' = graph \cup {<<nodes[min_node].data, data, weight>>}
    /\ visited' = visited \cup {data}
    /\ LET canvas == HashInTree_find_seat(nodes, data)
           new_neighbor_weight == nodes[min_node].weight + weight
       IN  IF canvas = NULL
           THEN /\ pc' = "exit2"
                /\ UNCHANGED <<nodes, heap, size, zero_filled>>
           ELSE IF nodes[canvas].data = NULL
           THEN \E g \in UninitHeapIndex :
                  LET t1 == [nodes EXCEPT ![canvas] =
                                [data |-> data, weight |-> new_neighbor_weight,
                                 parent |-> min_node, heapIndex |-> g]]
                  IN  /\ Continue(MinHeap_update_key(heap, t1, size, canvas, TRUE), "callback")
                      /\ zero_filled' = (zero_filled /\ g = 0)
           ELSE IF ~isBetterThan(nodes[canvas].weight, new_neighbor_weight)
           THEN LET t1 == [nodes EXCEPT ![canvas].weight = new_neighbor_weight,
                                        ![canvas].parent = min_node]
                IN  /\ Continue(MinHeap_update_key(heap, t1, size, canvas, FALSE), "callback")
                    /\ UNCHANGED zero_filled
           ELSE UNCHANGED <<pc, nodes, heap, size, zero_filled>>
    /\ UNCHANGED <<total_number_of_nodes, min_node, plucked, called, freed, main_node, list_vars>>

\* writeIn_neighbor for one neighbour `data` reached over an edge of weight
\* `weight` from the record send_neighbors was called with.
writeIn_neighbor(data, weight) ==
    /\ pc = "callback"
    /\ Cardinality(graph) < MaxEdges
    /\ \A e \in graph : ~(e[1] = nodes[min_node].data /\ e[2] = data)
    \* An edge back to the source or to min_node itself can never pass the
    \* isBetterThan test (weights are non-negative), so it is not offered.
    /\ data # sourceData
    /\ data # nodes[min_node].data
    /\ graph' = graph \cup {<<nodes[min_node].data, data, weight>>}
    /\ visited' = visited \cup {data}
    /\ LET canvas == HashInTree_find_seat(nodes, data)
           new_neighbor_weight == nodes[min_node].weight + weight
       IN  IF canvas = NULL
           THEN /\ pc' = "exit2"
                /\ UNCHANGED <<nodes, heap, size, zero_filled>>
           ELSE IF nodes[canvas].data = NULL
           THEN \E g \in UninitHeapIndex :
                  LET t1 == [nodes EXCEPT ![canvas] =
                                [data |-> data, weight |-> new_neighbor_weight,
                                 parent |-> min_node, heapIndex |-> g]]
                  IN  /\ Continue(MinHeap_update_key(heap, t1, size, canvas, TRUE), "callback")
                      /\ zero_filled' = (zero_filled /\ g = 0)
           ELSE IF isBetterThan(new_neighbor_weight, nodes[canvas].weight)
           THEN LET t1 == [nodes EXCEPT ![canvas].weight = new_neighbor_weight,
                                        ![canvas].parent = min_node]
                IN  /\ Continue(MinHeap_update_key(heap, t1, size, canvas, FALSE), "callback")
                    /\ UNCHANGED zero_filled
           ELSE UNCHANGED <<pc, nodes, heap, size, zero_filled>>
    /\ UNCHANGED <<total_number_of_nodes, min_node, plucked, called, freed, main_node, list_vars>>

\* send_neighbors has offered every neighbour of min_node and returns.
send_neighbors_return ==
    /\ pc = "callback"
    /\ pc' = "loop"
    /\ UNCHANGED <<total_number_of_nodes, nodes, heap, size, min_node, graph, visited,
                   zero_filled, plucked, called, freed, main_node, list_vars>>

\* main (part_000 80): the returned table is torn down with HashInTree_free.
\* The engine never returns a null table, so the early return of
\* HashInTree_free is not taken.
main_HashInTree_free ==
    /\ pc = "done"
    /\ freed' = freed \o HashInTree_free(nodes)
    /\ pc' = "freed"
    /\ UNCHANGED <<total_number_of_nodes, nodes, heap, size, min_node, graph, visited,
                   zero_filled, plucked, called, main_node, list_vars>>

Next ==
    \/ InsertSource
    \/ PluckMin
    \/ Finish
    \/ \E data \in Keys, weight \in Weights : writeIn_neighbor(data, weight)
    \/ send_neighbors_return
    \/ main_HashInTree_free

Spec == Init /\ [][Next]_vars

\* ------------------------------------------------------ diamond scenario
\* The diamond graph source -> A (1), source -> B (4), A -> C (1), B -> C (1)
\* with source, A, B, C = 0, 1, 2, 3.
ScenarioC == {<<0, 1, 1>>, <<0, 2, 4>>, <<1, 3, 1>>, <<2, 3, 1>>}

\* send_neighbors offers an edge of the diamond that leaves min_node.
send_neighbors_diamond ==
    \E e \in ScenarioC :
        /\ pc = "callback"
        /\ e[1] = nodes[min_node].data
        /\ writeIn_neighbor(e[2], e[3])

\* The engine with a callback that may also offer the edges of the diamond.
NextDiamond ==
    \/ Next
    \/ send_neighbors_diamond

DiamondSpec == Init /\ [][NextDiamond]_vars

\* ----------------------------------------------------- heap in isolation
\* The heap routines driven directly on a well-formed heap: the array holds
\* `size` records in heap order and every resident record's heapIndex is its
\* position (what a caller that initialises heapIndex before the insert
\* obtains).
\* Three weights order a record against two distinct ancestors.
HeapWeights == {0, 1, 2}

InitHeap ==
    /\ pc = "heap"
    /\ total_number_of_nodes = MaxHeapSize
    /\ size \in 0 .. MaxHeapSize
    /\ heap = [i \in 0 .. (MaxHeapSize - 1) |-> IF i < size THEN i ELSE NULL]
    /\ \E w \in [0 .. (size - 1) -> HeapWeights] :
          /\ \A i \in 1 .. (size - 1) : ~isBetterThan(w[i], w[parent_index(i)])
          /\ nodes = [s \in 0 .. (2 * MaxHeapSize) |->
                        IF s < size
                        THEN [data |-> s, weight |-> w[s], parent |-> NULL, heapIndex |-> s]
                        ELSE EmptyNode]
    /\ min_node = NULL
    /\ graph = {}
    /\ visited = {}
    /\ zero_filled = TRUE
    /\ plucked = <<>>
    /\ called = <<>>
    /\ freed = <<>>
    /\ main_node = NULL
    /\ NoList

\* The decrease of writeIn_neighbor (part_000 54-57): a better weight is
\* stored in the record at heap position `index` and MinHeap_update_key is
\* called for it with NodeIsNew = false.
DecreaseKey(index, weight) ==
    /\ pc = "heap"
    /\ index < size
    /\ isBetterThan(weight, nodes[heap[index]].weight)
    /\ LET t1 == [nodes EXCEPT ![heap[index]].weight = weight]
       IN  Continue(MinHeap_update_key(heap, t1, size, heap[index], FALSE), "heap")
    /\ UNCHANGED <<total_number_of_nodes, min_node, graph, visited, zero_filled, plucked,
                   called, freed, main_node, list_vars>>

\* One MinHeap_pluck_min call (Dijkstra.h 341), on an empty heap too.
Pluck ==
    /\ pc = "heap"
    /\ LET r == MinHeap_pluck_min(heap, nodes, size)
       IN  /\ Continue(r, "heap")
           /\ min_node' = r.ret
    /\ UNCHANGED <<total_number_of_nodes, graph, visited, zero_filled, plucked, called,
                   freed, main_node, list_vars>>

NextHeap ==
    \/ \E index \in 0 .. (MaxHeapSize - 1), weight \in HeapWeights : DecreaseKey(index, weight)
    \/ Pluck

HeapSpec == InitHeap /\ [][NextHeap]_vars

\* ---------------------------------------------------- table in isolation
\* The table routines driven directly: any key may be claimed or looked up,
\* in any order, on a table created for a declared count of 1..MaxTableTotal.
TableKeys == 0 .. MaxTableKey

InitTable ==
    /\ pc = "table"
    /\ total_number_of_nodes \in 1 .. MaxTableTotal
    /\ nodes = HashInTree_create(2 * total_number_of_nodes + 1)
    /\ heap = MinHeap_create(total_number_of_nodes)
    /\ size = 0
    /\ min_node = NULL
    /\ graph = {}
    /\ visited = {}
    /\ zero_filled = TRUE
    /\ plucked = <<>>
    /\ called = <<>>
    /\ freed = <<>>
    /\ main_node = NULL
    /\ NoList

\* The seat request of writeIn_neighbor (part_000 43-48): find a seat, exit(2)
\* when there is none, store the key when the seat is empty.
ClaimSeat(data) ==
    /\ pc = "table"
    /\ visited' = visited \cup {data}
    /\ LET canvas == HashInTree_find_seat(nodes, data)
       IN  IF canvas = NULL
           THEN pc' = "exit2" /\ UNCHANGED nodes
           ELSE IF nodes[canvas].data = NULL
           THEN nodes' = [nodes EXCEPT ![canvas].data = data] /\ UNCHANGED pc
           ELSE UNCHANGED <<pc, nodes>>
    /\ UNCHANGED <<total_number_of_nodes, heap, size, min_node, graph, zero_filled,
                   plucked, called, freed, main_node, list_vars>>

\* The lookup of main (part_000 73).
Lookup(data) ==
    /\ pc = "table"
    /\ main_node' = HashInTree_get_node_by_data(nodes, data)
    /\ UNCHANGED <<pc, total_number_of_nodes, nodes, heap, size, min_node, graph, visited,
                   zero_filled, plucked, called, freed, list_vars>>

NextTable ==
    \/ \E data \in TableKeys : ClaimSeat(data)
    \/ \E data \in TableKeys : Lookup(data)

TableSpec == InitTable /\ [][NextTable]_vars

\* ----------------------------------------------------- linked-list utility
\* Node addresses malloc may hand out: one for the dummy header and one per
\* element.
ListAddresses == 0 .. MaxListSize

\* Data pointers stored in the list.
ListData == {1, 2}

\* Memory after malloc returned address a and the Node there was filled in.
Malloc(mem, a, n) == [x \in (DOMAIN mem) \cup {a} |-> IF x = a THEN n ELSE mem[x]]

\* Memory after free(a).
Free(mem, a) == [x \in (DOMAIN mem) \ {a} |-> mem[x]]

\* Result of a list routine: the LinkedList struct and the memory afterwards;
\* status is "ok" or "exit2"; ret is the returned data pointer.
ListResult(L, mem, status, ret) == [list |-> L, mem |-> mem, status |-> status, ret |-> ret]

\* get_node_at, first branch: while (i++ < size) header = header->prev.
RECURSIVE WalkPrev(_, _, _, _)
WalkPrev(mem, header, i, sz) ==
    IF i < sz THEN WalkPrev(mem, mem[header].prev, i + 1, sz) ELSE header

\* get_node_at, second branch: while (i-- >= 0) header = header->next.
RECURSIVE WalkNext(_, _, _)
WalkNext(mem, header, i) ==
    IF i >= 0 THEN WalkNext(mem, mem[header].next, i - 1) ELSE header

\* Variant of get_node_at whose backward walk follows next instead of prev.
get_node_at_backwards_via_next(mem, header, i, sz) ==
    IF sz - 1 - i < i
    THEN WalkNext(mem, header, sz - i - 1)
    ELSE WalkNext(mem, header, i)

get_node_at(mem, header, i, sz) ==
    IF sz - 1 - i < i
    THEN WalkPrev(mem, header, i, sz)
    ELSE WalkNext(mem, header, i)

addEnd(L, mem, newData, newNode) ==
    LET m1 == Malloc(mem, newNode, [data |-> newData, next |-> L.header,
                                    prev |-> mem[L.header].prev])
        m2 == [m1 EXCEPT ![m1[L.header].prev].next = newNode]
        m3 == [m2 EXCEPT ![L.header].prev = newNode]
    IN  ListResult([L EXCEPT !.size = L.size + 1], m3, "ok", NULL)

pop(L, mem, position) ==
    IF position < 0 \/ L.size <= position
    THEN ListResult(L, mem, "exit2", NULL)
    ELSE LET badNode == get_node_at(mem, L.header, position, L.size)
             removedData == mem[badNode].data
             m1 == [mem EXCEPT ![mem[badNode].prev].next = mem[badNode].next]
             m2 == [m1 EXCEPT ![m1[badNode].next].prev = m1[badNode].prev]
         IN  ListResult([L EXCEPT !.size = L.size - 1], Free(m2, badNode), "ok", removedData)

addFirst(L, mem, newElement, newNode) ==
    LET m1 == Malloc(mem, newNode, [data |-> newElement, next |-> mem[L.header].next,
                                    prev |-> L.header])
        m2 == [m1 EXCEPT ![m1[L.header].next].prev = newNode]
        m3 == [m2 EXCEPT ![L.header].next = newNode]
    IN  ListResult([L EXCEPT !.size = L.size + 1], m3, "ok", NULL)

removeFirst(L, mem) ==
    IF L.size = 0
    THEN ListResult(L, mem, "exit2", NULL)
    ELSE LET badNode == mem[L.header].next
             m1 == [mem EXCEPT ![L.header].next = mem[badNode].next]
             m2 == [m1 EXCEPT ![m1[badNode].next].prev = L.header]
         IN  ListResult([L EXCEPT !.size = L.size - 1], Free(m2, badNode), "ok",
                        mem[badNode].data)

swap(L, mem, i, j) ==
    IF L.size <= i \/ L.size <= j
    THEN ListResult(L, mem, "exit2", NULL)
    ELSE LET p1 == get_node_at(mem, L.header, i, L.size)
             p2 == get_node_at(mem, L.header, j, L.size)
             temp == mem[p1].data
             m1 == [mem EXCEPT ![p1].data = mem[p2].data]
             m2 == [m1 EXCEPT ![p2].data = temp]
         IN  ListResult(L, m2, "ok", NULL)

change(L, mem, position, newElement) ==
    IF position < 0 \/ L.size <= position
    THEN ListResult(L, mem, "exit2", NULL)
    ELSE LET p == get_node_at(mem, L.header, position, L.size)
         IN  ListResult(L, [mem EXCEPT ![p].data = newElement], "ok", mem[p].data)

\* The variables of the engine, which the list utility does not touch.
dijkstra_vars == <<total_number_of_nodes, nodes, heap, size, min_node, graph, visited,
                   zero_filled, plucked, called, freed, main_node>>

\* State after createList: the dummy header points at itself.
InitList ==
    /\ pc = "list"
    /\ \E header \in ListAddresses :
          /\ someList = [header |-> header, size |-> 0]
          /\ listmem = Malloc(<<>>, header, [data |-> NULL, next |-> header, prev |-> header])
    /\ reference = <<>>
    /\ returned = <<>>
    /\ total_number_of_nodes = 1
    /\ nodes = HashInTree_create(2 * total_number_of_nodes + 1)
    /\ heap = MinHeap_create(total_number_of_nodes)
    /\ size = 0
    /\ min_node = NULL
    /\ graph = {}
    /\ visited = {}
    /\ zero_filled = TRUE
    /\ plucked = <<>>
    /\ called = <<>>
    /\ freed = <<>>
    /\ main_node = NULL

\* Store the outcome of a list routine; `expected` is the reference sequence
\* after the same operation and `ret` the pair <<returned, expected>> (empty
\* for a void routine).
ListStore(r, expected, ret) ==
    /\ someList' = r.list
    /\ listmem' = r.mem
    /\ pc' = IF r.status = "ok" THEN "list" ELSE r.status
    /\ reference' = IF r.status = "ok" THEN expected ELSE reference
    /\ returned' = IF r.status = "ok" THEN ret ELSE returned
    /\ UNCHANGED dijkstra_vars

\* Sequence q without its element at 0-based position i.
RemoveAt(q, i) == SubSeq(q, 1, i) \o SubSeq(q, i + 2, Len(q))

call_addEnd(newData) ==
    /\ pc = "list"
    /\ someList.size < MaxListSize
    /\ \E newNode \in ListAddresses \ DOMAIN listmem :
          ListStore(addEnd(someList, listmem, newData, newNode),
                    Append(reference, newData), <<>>)

call_addFirst(newElement) ==
    /\ pc = "list"
    /\ someList.size < MaxListSize
    /\ \E newNode \in ListAddresses \ DOMAIN listmem :
          ListStore(addFirst(someList, listmem, newElement, newNode),
                    <<newElement>> \o reference, <<>>)

call_removeFirst ==
    /\ pc = "list"
    /\ LET r == removeFirst(someList, listmem)
       IN  IF r.status = "ok"
           THEN ListStore(r, Tail(reference), <<r.ret, Head(reference)>>)
           ELSE ListStore(r, reference, returned)

call_pop(position) ==
    /\ pc = "list"
    /\ LET r == pop(someList, listmem, position)
       IN  IF r.status = "ok"
           THEN ListStore(r, RemoveAt(reference, position), <<r.ret, reference[position + 1]>>)
           ELSE ListStore(r, reference, returned)

call_swap(i, j) ==
    /\ pc = "list"
    /\ LET r == swap(someList, listmem, i, j)
       IN  IF r.status = "ok"
           THEN ListStore(r, [reference EXCEPT ![i + 1] = reference[j + 1],
                                               ![j + 1] = reference[i + 1]], <<>>)
           ELSE ListStore(r, reference, returned)

call_change(position, newElement) ==
    /\ pc = "list"
    /\ LET r == change(someList, listmem, position, newElement)
       IN  IF r.status = "ok"
           THEN ListStore(r, [reference EXCEPT ![position + 1] = newElement],
                          <<r.ret, reference[position + 1]>>)
           ELSE ListStore(r, reference, returned)

NextList ==
    \/ \E newData \in ListData : call_addEnd(newData)
    \/ \E newElement \in ListData : call_addFirst(newElement)
    \/ call_removeFirst
    \/ \E position \in -1 .. MaxListSize : call_pop(position)
    \/ \E i, j \in 0 .. MaxListSize : call_swap(i, j)
    \/ \E position \in -1 .. MaxListSize, newElement \in ListData :
          call_change(position, newElement)

ListSpec == InitList /\ [][NextList]_vars

TypeOK ==
    /\ pc \in ProgramCounters
    /\ size \in 0 .. capacity + 1

\* ------------------------------------------------------ derived notions
\* Slots of the table that hold a record.
Seated == {s \in DOMAIN nodes : nodes[s].data # NULL}

\* The run has reached a point between two heap calls.
BetweenCalls == pc \in {"loop", "callback"}

\* The declared node count covers every key the callback can name.
SufficientCount == total_number_of_nodes >= NumKeys

\* A run of the kind the claims are about: the declared node count is
\* sufficient and the allocator handed out zero-filled memory, so that no
\* uninitialised field held a stray value.
WellSizedRun == SufficientCount /\ zero_filled

\* Reference shortest-path costs over the edges produced so far
\* (Bellman-Ford, NumKeys rounds).
MinOf(S) == CHOOSE x \in S : \A y \in S : x <= y

MaxOf(S) == CHOOSE x \in S : \A y \in S : x >= y

Infinity == (NumKeys * MaxOf(Weights)) + 1

RECURSIVE Relax(_, _)
Relax(d, rounds) ==
    IF rounds = 0
    THEN d
    ELSE Relax([v \in Keys |->
                  MinOf({d[v]} \cup {d[e[1]] + e[3] :
                                       e \in {x \in graph : x[2] = v /\ d[x[1]] < Infinity}})],
               rounds - 1)

Dist == Relax([v \in Keys |-> IF v = sourceData THEN sourceWeight ELSE Infinity], NumKeys)

Reachable == {v \in Keys : Dist[v] < Infinity}

\* Slots extracted so far, in order.
PluckedSlots == {plucked[i][1] : i \in 1 .. Len(plucked)}

\* ---------------------------------------------------------------- claims

\* C1: after every MinHeap_update_key and MinHeap_pluck_min call every
\* record resident in the heap array has heapIndex equal to the slot it
\* occupies, a freshly inserted record included (stated for runs on
\* zero-filled memory, the most favourable case).
C1_HeapIndexMatchesSlot ==
    (BetweenCalls /\ zero_filled) =>
        \A i \in 0 .. (size - 1) : heap[i] # NULL /\ nodes[heap[i]].heapIndex = i

\* C2: the heap property holds before and after every MinHeap_update_key and
\* MinHeap_pluck_min call of an engine run: no entry is better than its
\* parent (stated for runs on zero-filled memory).
C2_HeapProperty ==
    (BetweenCalls /\ zero_filled) =>
        \A i \in 1 .. (size - 1) :
            ~isBetterThan(nodes[heap[i]].weight, nodes[heap[parent_index(i)]].weight)

\* C3: in a well-sized run the records come out of MinHeap_pluck_min in
\* non-decreasing order of distance.
C3_ExtractionOrderNonDecreasing ==
    WellSizedRun =>
        \A i, j \in 1 .. Len(plucked) :
            i < j => ~isBetterThan(plucked[j][2], plucked[i][2])

\* C4: when the engine returns from a well-sized run, the table
\* holds exactly one record per node reachable from the source, none for the
\* others, and every record's weight is the reference shortest-path cost.
C4_ResultIsShortestPaths ==
    (pc = "done" /\ WellSizedRun) =>
        /\ \A k \in Keys :
             Cardinality({s \in Seated : nodes[s].data = k}) = (IF k \in Reachable THEN 1 ELSE 0)
        /\ \A s \in Seated : nodes[s].weight = Dist[nodes[s].data]

\* C5: once a record has been returned by MinHeap_pluck_min its weight and
\* parent are never written again (stated for well-sized runs).
C5_SettledImmutable ==
    [][WellSizedRun =>
         \A s \in PluckedSlots :
            /\ nodes'[s].weight = nodes[s].weight
            /\ nodes'[s].parent = nodes[s].parent]_vars

\* C6: no record is extracted from the heap more than once, and send_neighbors
\* is invoked exactly once per extracted record, in extraction order.
C6_ExtractedOnceCalledOnce ==
    /\ \A i, j \in 1 .. Len(plucked) : i # j => plucked[i][1] # plucked[j][1]
    /\ Len(called) = Len(plucked)
    /\ \A i \in 1 .. Len(plucked) : called[i] = plucked[i][1]

C6_Witness ==
    /\ pc = "done"
    /\ Len(plucked) = NumKeys

\* C7: with a declared node count at least the number of reachable nodes
\* (and zero-filled memory) the run ends normally, with the heap empty and
\* every reachable node extracted; it never ends abnormally.
C7_TerminatesNormally ==
    WellSizedRun =>
        /\ pc \notin {"segv", "exit2"}
        /\ pc = "done" =>
             /\ size = 0
             /\ \A k \in Reachable : \E s \in PluckedSlots : nodes[s].data = k

\* The records met when following parent from slot s, s first, for at most
\* `fuel` steps.
RECURSIVE ParentChain(_, _)
ParentChain(s, fuel) ==
    IF nodes[s].parent = NULL \/ fuel = 0
    THEN <<s>>
    ELSE <<s>> \o ParentChain(nodes[s].parent, fuel - 1)

\* C8: in the table returned by a well-sized run the parent references form
\* an in-tree rooted at the source: only the source record has parent NULL,
\* following parent from any record reaches it without revisiting a record,
\* and every other record's weight is its parent's weight plus the weight of
\* an edge parent -> record.
C8_ParentsFormInTree ==
    (pc = "done" /\ WellSizedRun) =>
        \A s \in Seated :
            LET chain == ParentChain(s, Cardinality(Seated))
                p == nodes[s].parent
            IN  /\ (p = NULL) <=> (nodes[s].data = sourceData)
                /\ nodes[chain[Len(chain)]].data = sourceData
                /\ \A i, j \in 1 .. Len(chain) : i # j => chain[i] # chain[j]
                /\ p # NULL =>
                     \E e \in graph :
                        /\ e[1] = nodes[p].data
                        /\ e[2] = nodes[s].data
                        /\ nodes[s].weight = nodes[p].weight + e[3]

\* C9: the heap never holds more than capacity records, and a step that
\* claims a new seat while the heap is full (MinHeap_update_key with
\* NodeIsNew = true, size == capacity) ends the run with exit(2) and leaves
\* the heap array and size as they were.
C9_FullHeapInsertIsFatal ==
    /\ [](size <= capacity)
    /\ [][((\E s \in DOMAIN nodes : nodes[s].data = NULL /\ nodes'[s].data # NULL)
           /\ size = capacity)
          => (pc' = "exit2" /\ heap' = heap /\ size' = size)]_vars

C9_Witness ==
    /\ pc = "exit2"
    /\ size = capacity
    /\ Cardinality(Seated) - Len(plucked) > capacity

\* C10 as stated: a run whose declared node count is smaller than the number
\* of distinct nodes visited never returns a result table.
C10_UndersizedNeverReturns ==
    ~(pc = "done" /\ total_number_of_nodes < Cardinality(visited))

\* C10 amended: the run ends with exit(2) whenever the distinct nodes visited
\* outnumber the table's 2 * total_number_of_nodes + 1 slots, or the records
\* seated and not yet extracted outnumber the heap's capacity
\* total_number_of_nodes; a smaller excess over the declared count is not
\* detected.
C10_OverflowIsFatal ==
    (Cardinality(visited) > tableSize \/ Cardinality(Seated) - Len(plucked) > capacity)
        => pc = "exit2"

C10_Witness ==
    /\ pc = "exit2"
    /\ Cardinality(visited) > tableSize
    /\ size < capacity

\* Position i of the wrapping probe sequence of key `data` in table t.
Probe(t, data, i) == (hashfunc(Len0(t), data) + i) % Len0(t)

\* Probe positions at which the slot is empty or holds `data`.
ProbeHits(t, data) ==
    {i \in 0 .. (Len0(t) - 1) :
        t[Probe(t, data, i)].data = NULL \/ t[Probe(t, data, i)].data = data}

\* C11: HashInTree_find_seat returns the first slot of the wrapping probe
\* sequence hash, hash+1, ... (mod table size) that is empty or holds the key,
\* and NULL exactly when every slot is occupied and none holds the key.
C11_FindSeatFirstFreeOrEqual ==
    \A data \in TableKeys :
        LET seat == HashInTree_find_seat(nodes, data)
            hits == ProbeHits(nodes, data)
        IN  /\ hits # {} => seat = Probe(nodes, data, MinOf(hits))
            /\ (seat = NULL) <=>
                  \A s \in DOMAIN nodes : nodes[s].data # NULL /\ nodes[s].data # data

\* A full table in which one key was seated after the probe wrapped past the
\* last slot and another key has no seat.
C11_Witness ==
    /\ \E data \in TableKeys :
          /\ HashInTree_find_seat(nodes, data) # NULL
          /\ HashInTree_find_seat(nodes, data) < hashfunc(Len0(nodes), data)
          /\ nodes[HashInTree_find_seat(nodes, data)].data = data
    /\ \E data \in TableKeys : HashInTree_find_seat(nodes, data) = NULL

\* C12: a step that claims a seat for a key absent from a completely full
\* table ends the run with exit(2) and leaves table and heap as they were,
\* and nothing is written to the table or the heap after that.
C12_FullTableClaimIsFatal ==
    /\ [][(/\ Seated = DOMAIN nodes
           /\ \E e \in graph' \ graph : \A s \in DOMAIN nodes : nodes[s].data # e[2])
          => (pc' = "exit2" /\ nodes' = nodes /\ heap' = heap /\ size' = size)]_vars
    /\ [][pc = "exit2"
          => (pc' = "exit2" /\ nodes' = nodes /\ heap' = heap /\ size' = size)]_vars

C12_Witness ==
    /\ pc = "exit2"
    /\ Seated = DOMAIN nodes
    /\ \E data \in visited : \A s \in DOMAIN nodes : nodes[s].data # data

\* C13: HashInTree_get_node_by_data returns, for a key that has a seat, the
\* slot holding it (the slot HashInTree_find_seat returns for it) and NULL for
\* a key that has none, whether the probe meets an empty slot or wraps
\* through a table without one; the pointer main received denotes an
\* occupied slot.
C13_LookupFindsSeatedOnly ==
    /\ \A data \in TableKeys :
          LET found == HashInTree_get_node_by_data(nodes, data)
              holders == {s \in DOMAIN nodes : nodes[s].data = data}
          IN  IF holders # {}
              THEN found \in holders /\ found = HashInTree_find_seat(nodes, data)
              ELSE found = NULL
    /\ main_node # NULL => main_node \in Seated

\* A table without an empty slot in which the last lookup found its key
\* after wrapping past the last slot, and some key is not found.
C13_Witness ==
    /\ Seated = DOMAIN nodes
    /\ main_node # NULL
    /\ main_node < hashfunc(Len0(nodes), nodes[main_node].data)
    /\ \E data \in TableKeys : HashInTree_get_node_by_data(nodes, data) = NULL

\* C14: during an engine run the table keeps its size and an occupied slot
\* keeps its key: no step vacates or re-keys a slot.
C14_SeatsAreStable ==
    [][/\ DOMAIN nodes' = DOMAIN nodes
       /\ \A s \in Seated : nodes'[s].data = nodes[s].data]_vars

\* A run that seated a key away from its home slot, relaxed a seated record
\* again and went on to tear-down.
C14_Witness ==
    /\ pc = "freed"
    /\ \E s \in Seated : s # hashfunc(Len0(nodes), nodes[s].data)
    /\ Cardinality(graph) > Cardinality(Seated) - 1

\* C15: when the engine returns and the callback produced no edge (the source
\* has no outgoing edges), the table holds exactly one record, the source key
\* with weight sourceWeight and parent NULL, and the callback was invoked
\* exactly once, with that record; on zero-filled memory such a run does not
\* end abnormally.
C15_IsolatedSource ==
    /\ (pc = "done" /\ graph = {}) =>
          \E s \in DOMAIN nodes :
             /\ Seated = {s}
             /\ nodes[s].data = sourceData
             /\ nodes[s].weight = sourceWeight
             /\ nodes[s].parent = NULL
             /\ called = <<s>>
    /\ (graph = {} /\ zero_filled) => pc \notin {"segv", "exit2"}

C15_Witness ==
    /\ pc = "done"
    /\ graph = {}
    /\ total_number_of_nodes = 1
    /\ Len(called) = 1

\* C16: a step in which the callback offers a seated neighbour a candidate
\* weight that is not better than the recorded one changes neither the
\* records (weight, parent, heapIndex) nor the heap array nor the heap size;
\* and when the engine returns from the diamond, C has distance 2 and
\* parent A.
C16_RelaxationSkip ==
    /\ [][\A e \in graph' \ graph :
            LET holders == {s \in Seated : nodes[s].data = e[2]}
            IN  (/\ holders # {}
                 /\ \A s \in holders :
                       ~isBetterThan(nodes[min_node].weight + e[3], nodes[s].weight))
                => (nodes' = nodes /\ heap' = heap /\ size' = size /\ pc' = pc)]_vars
    /\ [](  (pc = "done" /\ graph = ScenarioC)
          => \E a, c \in Seated :
                /\ nodes[a].data = 1
                /\ nodes[c].data = 3
                /\ nodes[c].weight = 2
                /\ nodes[c].parent = a)

\* The engine returned from the diamond after extracting source, A, B, C in
\* that order, so that B's candidate 5 for C met the recorded 2.
C16_Witness ==
    /\ pc = "done"
    /\ graph = ScenarioC
    /\ Len(plucked) = 4
    /\ nodes[plucked[4][1]].data = 3
    /\ nodes[plucked[2][1]].data = 1

\* C17: no payload goes to free_data_and_weight before HashInTree_free runs,
\* and HashInTree_free hands it, before releasing the table, the payload of
\* every occupied slot exactly once and of no empty slot.
C17_PayloadsFreedOnceAtTeardown ==
    /\ pc # "freed" => freed = <<>>
    /\ pc = "freed" =>
          /\ \A s \in Seated : Cardinality({i \in 1 .. Len(freed) : freed[i] = s}) = 1
          /\ \A i \in 1 .. Len(freed) : freed[i] \in Seated

C17_Witness ==
    /\ pc = "freed"
    /\ Len(freed) >= 3
    /\ Seated # DOMAIN nodes
    /\ freed[1] # 0 \/ freed[2] # 1

\* Records resident in the first sz entries of heap array h.
Residents(h, sz) == {h[i] : i \in 0 .. (sz - 1)}

\* C18: a MinHeap_pluck_min call on an empty heap returns NULL and changes
\* neither the array nor the size nor any record; on a non-empty heap it
\* returns the record at index 0, decreases size by exactly one, and the
\* records resident afterwards are the previous ones minus the returned one.
\* (In the isolated heap the steps that change no weight are the
\* MinHeap_pluck_min calls.)
C18_PluckMinContract ==
    [][(pc = "heap" /\ \A s \in DOMAIN nodes : nodes'[s].weight = nodes[s].weight)
       => IF size = 0
          THEN min_node' = NULL /\ heap' = heap /\ size' = size /\ nodes' = nodes
          ELSE /\ min_node' = heap[0]
               /\ size' = size - 1
               /\ Residents(heap', size') = Residents(heap, size) \ {heap[0]}
               /\ Cardinality(Residents(heap', size')) = size']_vars

\* A full heap from which one record was plucked; the record that was last
\* in the array has sunk from the root to position 3.
C18_Witness ==
    /\ pc = "heap"
    /\ size = MaxHeapSize - 1
    /\ min_node # NULL
    /\ min_node \notin Residents(heap, size)
    /\ heap[3] = MaxHeapSize - 1

\* C19: every record MinHeap_pluck_min returns during an engine run is a
\* minimum of the heap at that moment: no record resident before the
\* extraction is better than the returned one (stated for well-sized runs).
C19_PluckReturnsMinimum ==
    [][(pc = "loop" /\ pc' = "callback" /\ WellSizedRun)
       => \A i \in 0 .. (size - 1) :
             ~isBetterThan(nodes[heap[i]].weight, nodes[min_node'].weight)]_vars

\* Every resident record's heapIndex is its position in the array.
HeapIndexOK ==
    \A i \in 0 .. (size - 1) : heap[i] # NULL /\ nodes[heap[i]].heapIndex = i

\* No resident record is better than its parent.
HeapOrdered ==
    \A i \in 1 .. (size - 1) :
        ~isBetterThan(nodes[heap[i]].weight, nodes[heap[parent_index(i)]].weight)

\* Position q is position p or lies on the path from p to the root.
IsAncestorOrSelf(q, p) == \E j \in 0 .. p : (p + 1) \div (2 ^ j) = q + 1

\* C20: on a heap with correct heapIndex fields and the heap property, after
\* the record at position p has become better, MinHeap_bubble_up(p) leaves the
\* record at the root or below the first ancestor that is not worse (every
\* ancestor it passed was worse), and afterwards the heap property holds
\* everywhere, the resident set is unchanged and every resident record's
\* heapIndex is its position.
C20_SiftUpRestoresHeap ==
    [][\A r \in Residents(heap, size) :
         (pc = "heap" /\ HeapIndexOK /\ HeapOrdered /\ nodes'[r].weight # nodes[r].weight)
         => LET p == nodes[r].heapIndex
                q == nodes'[r].heapIndex
            IN  /\ pc' = "heap"
                /\ IsAncestorOrSelf(q, p)
                /\ q = 0 \/ ~isBetterThan(nodes'[r].weight, nodes[heap[parent_index(q)]].weight)
                /\ \A a \in q .. (p - 1) :
                      IsAncestorOrSelf(a, p) => isBetterThan(nodes'[r].weight, nodes[heap[a]].weight)
                /\ HeapOrdered'
                /\ HeapIndexOK'
                /\ size' = size
                /\ Residents(heap', size') = Residents(heap, size)]_vars

\* No record was plucked, and the record that started at position 3 is at the
\* root: it rose two levels.
C20_Witness ==
    /\ pc = "heap"
    /\ size = MaxHeapSize
    /\ heap[0] = 3
    /\ nodes[3].heapIndex = 0

\* C21: in a MinHeap_pluck_min call that leaves n records, the replacement
\* record x (the former last entry) ends at a position q such that every
\* position a on the path from the root down to q was the child considered
\* at its parent (a right child only if strictly better than its left
\* sibling, a left child whenever the right one is absent or not strictly
\* better) and held a record strictly better than x, which moved up one
\* level; q is a leaf or its considered child is not better than x; entries
\* off the path stay where they were.
C21_SiftDownLeftWinsTies ==
    [][(pc = "heap" /\ size > 1 /\ \A s \in DOMAIN nodes : nodes'[s].weight = nodes[s].weight)
       => LET n == size - 1
              x == heap[n]
              q == nodes'[x].heapIndex
              w(i) == nodes[heap[i]].weight
              considered(c) ==
                  IF right_child_index(c) < n
                     /\ isBetterThan(w(right_child_index(c)), w(left_child_index(c)))
                  THEN right_child_index(c)
                  ELSE left_child_index(c)
          IN  /\ q \in 0 .. (n - 1)
              /\ heap'[q] = x
              /\ \A a \in 1 .. (n - 1) :
                    IF IsAncestorOrSelf(a, q)
                    THEN /\ a = considered(parent_index(a))
                         /\ isBetterThan(w(a), nodes[x].weight)
                         /\ heap'[parent_index(a)] = heap[a]
                    ELSE heap'[a] = heap[a]
              /\ \/ left_child_index(q) >= n
                 \/ ~isBetterThan(w(considered(q)), nodes[x].weight)]_vars

\* A full heap from which one record was plucked: the children of the root
\* tied, the left one moved to the root, and the replacement record sank
\* below it to position 3.
C21_Witness ==
    /\ pc = "heap"
    /\ size = MaxHeapSize - 1
    /\ min_node # NULL
    /\ min_node \notin Residents(heap, size)
    /\ nodes[heap[0]].weight = nodes[heap[2]].weight
    /\ heap[3] = MaxHeapSize - 1
    /\ heap[0] = 1
    /\ heap[1] = 3
    /\ isBetterThan(nodes[heap[1]].weight, nodes[heap[3]].weight)

\* C22: in every state of an engine run the first `size` entries of the heap
\* array are non-NULL, pairwise distinct, occupied table slots not yet
\* extracted, the entries from `size` on are NULL, and the resident records
\* are exactly the seated records (each was inserted with NodeIsNew = true)
\* minus the extracted ones; the one exception to the last part is the
\* record whose insert was refused with exit(2).
C22_HeapArrayWellFormed ==
    /\ size <= capacity
    /\ \A i \in 0 .. (size - 1) :
          heap[i] # NULL /\ heap[i] \in Seated /\ heap[i] \notin PluckedSlots
    /\ \A i, j \in 0 .. (size - 1) : i # j => heap[i] # heap[j]
    /\ \A i \in size .. (capacity - 1) : heap[i] = NULL
    /\ pc # "exit2" => Residents(heap, size) = Seated \ PluckedSlots
    /\ pc = "exit2" =>
          /\ Residents(heap, size) \subseteq Seated \ PluckedSlots
          /\ Cardinality((Seated \ PluckedSlots) \ Residents(heap, size)) <= 1

\* Two records are resident after three inserts, a second extraction and one
\* more offer to a resident record.
C22_Witness ==
    /\ pc = "callback"
    /\ size = 2
    /\ Len(plucked) = 2
    /\ Cardinality(Seated) = 4
    /\ Cardinality(graph) = 4

\* C23: in a well-sized run every index handed to MinHeap_bubble_up
\* designates the record MinHeap_update_key was called with.  For a decrease
\* (NodeIsNew = false) the record's heapIndex is below size and the array
\* holds the record there, so the record is resident.  For an insert on
\* zero-filled memory the index handed over is 0 while the record sits at
\* the former size, so the two agree only on an empty heap.
C23_BubbleUpIndexDesignatesRecord ==
    [][(SufficientCount /\ zero_filled')
       => /\ \A s \in Seated :
               nodes'[s].weight # nodes[s].weight
               => (nodes[s].heapIndex < size /\ heap[nodes[s].heapIndex] = s)
          /\ \A s \in DOMAIN nodes :
               (nodes[s].data = NULL /\ nodes'[s].data # NULL /\ pc' # "exit2")
               => size = 0]_vars

\* C24: in every state of the table no two occupied slots hold equal keys,
\* every slot on the probe path from a seated key's home slot up to its seat
\* is occupied, and HashInTree_find_seat and HashInTree_get_node_by_data both
\* return the seat of every seated key.
C24_NoDuplicatesNoGaps ==
    /\ \A s1, s2 \in Seated : isEqual(nodes[s1].data, nodes[s2].data) => s1 = s2
    /\ \A s \in Seated :
          LET data == nodes[s].data
              distance == (s - hashfunc(Len0(nodes), data)) % Len0(nodes)
          IN  /\ \A i \in 0 .. (distance - 1) : Probe(nodes, data, i) \in Seated
              /\ HashInTree_find_seat(nodes, data) = s
              /\ HashInTree_get_node_by_data(nodes, data) = s

\* A table with an empty slot in which a key sits past its home slot, the
\* probe path wrapping past the last slot, after a successful lookup.
C24_Witness ==
    /\ pc = "table"
    /\ Seated # DOMAIN nodes
    /\ \E s \in Seated : s < hashfunc(Len0(nodes), nodes[s].data)
    /\ main_node # NULL

\* The node reached from node n by following next k times.
RECURSIVE NthNext(_, _)
NthNext(n, k) == IF k = 0 THEN n ELSE NthNext(listmem[n].next, k - 1)

\* The data of the list's nodes in next order, the header left out.
ListContents == [k \in 1 .. someList.size |-> listmem[NthNext(someList.header, k)].data]

\* C25: after any sequence of addFirst, addEnd, removeFirst, pop, swap and
\* change the nodes form a ring through the dummy header in both directions,
\* the ring has exactly size data nodes and no other node is allocated, the
\* data in next order are the reference sequence, and what removeFirst, pop
\* and change returned is what the reference sequence held there.
C25_ListRefinesSequence ==
    /\ \A n \in DOMAIN listmem :
          /\ listmem[n].next \in DOMAIN listmem
          /\ listmem[n].prev \in DOMAIN listmem
          /\ listmem[listmem[n].next].prev = n
          /\ listmem[listmem[n].prev].next = n
    /\ DOMAIN listmem = {NthNext(someList.header, k) : k \in 0 .. someList.size}
    /\ Cardinality(DOMAIN listmem) = someList.size + 1
    /\ NthNext(someList.header, someList.size + 1) = someList.header
    /\ ListContents = reference
    /\ returned # <<>> => returned[1] = returned[2]

\* A list of two different elements, stored at descending addresses, left by
\* an operation that returned an element.
C25_Witness ==
    /\ pc = "list"
    /\ someList.size = MaxListSize - 1
    /\ returned # <<>>
    /\ reference[1] # reference[2]
    /\ listmem[someList.header].next > listmem[someList.header].prev

====
